---- MODULE Spec2Model ----
(***************************************************************************)
(* The egui / wgpu / winit stub application (src/main.rs, src/ui.rs) as a  *)
(* state machine.  One action per ApplicationHandler callback; each action *)
(* is the whole callback, including do_render, draw_ui and the gallery's   *)
(* show/ui that a RedrawRequested event runs.                              *)
(*                                                                         *)
(* The f32 field `scalar` is modelled by the integers (all values used are *)
(* whole degrees), and the quotient scalar / 360.0 by the rational         *)
(* [num, den].                                                             *)
(*                                                                         *)
(* The external libraries are modelled by their documented contracts:      *)
(*   - winit delivers window events only for a live window, clears the     *)
(*     window's pending redraw request when it delivers RedrawRequested,   *)
(*     and delivers nothing after ActiveEventLoop::exit or a panic;        *)
(*   - egui_winit::State::on_window_event never reports CloseRequested,    *)
(*     RedrawRequested or Resized as consumed (they are not widget input); *)
(*     it may consume pointer / keyboard events, and may ask for a repaint *)
(*     on any event;                                                       *)
(*   - wgpu's Surface::get_current_texture returns Ok or one of the four   *)
(*     SurfaceError values; Surface::configure panics on a zero width or   *)
(*     height;                                                             *)
(*   - egui's Context::run returns a TexturesDelta {set, free} and shapes  *)
(*     that reference textures alive in the context.                       *)
(***************************************************************************)
EXTENDS Integers, Sequences, FiniteSets

VARIABLES
    app_resources,    \* App.app_resources: "None" or "Some"          (main.rs:13)
    window,           \* AppResources.window: id of the window, 0 if none
    surface_config,   \* GpuResources.surface_config: [width, height]
    ui_painter,       \* egui_wgpu::Renderer: ids of the resident textures
    ui_state,         \* egui_winit::State: [ctx, textures, next_id]
    ui_gallery,       \* WidgetGallery: [scalar, animate_progress_bar, open]
    windowSize,       \* the window's physical size (winit)
    redrawRequested,  \* winit: a redraw request is pending for the window
    loop,             \* event loop: "running", "exiting", "panicked"
    windowsCreated,   \* number of create_window calls so far
    rendered,         \* some frame has been presented since the start
    lastEvent,        \* the callback handled last
    trace,            \* the calls made by the callback handled last
    frame             \* what the last UI pass saw and drew

vars == <<app_resources, window, surface_config, ui_painter, ui_state,
          ui_gallery, windowSize, redrawRequested, loop,
          windowsCreated, rendered, lastEvent, trace, frame>>

----------------------------------------------------------------------------
\* Bounds of the model.
MaxResumes == 2
MaxDim == 2
MaxTextures == 2

\* Program constants.
SliderMin == 0
SliderMax == 360
ProgressDivisor == 360
DefaultScalar == 42

Dims == 0..MaxDim
Sizes == [width : Dims, height : Dims]
ZeroArea(size) == size.width = 0 \/ size.height = 0
\* Window::default_attributes(): the platform's default inner size.
DefaultSize == [width |-> 1, height |-> 1]
TextureIds == 1..MaxTextures

SurfaceErrors == {"Lost", "Outdated", "Timeout", "OutOfMemory"}
AcquireResults == {"Ok"} \cup SurfaceErrors

Op(name, arg) == [op |-> name, arg |-> arg]
Called(t, name) == \E i \in 1..Len(t) : t[i].op = name
Did(name) == Called(trace, name)
Count(name) == Cardinality({i \in 1..Len(trace) : trace[i].op = name})
FirstIndex(name) ==
    IF Did(name)
    THEN CHOOSE i \in 1..Len(trace) :
             /\ trace[i].op = name
             /\ \A j \in 1..(i - 1) : trace[j].op # name
    ELSE 0

NoFrame == [acquire |-> "none", drawn |-> FALSE, width |-> 0, height |-> 0, shown |-> FALSE,
            hovered |-> FALSE, animated |-> FALSE, interaction |-> "none",
            progress |-> [num |-> 0, den |-> 1],
            set |-> {}, free |-> {}]

----------------------------------------------------------------------------
\* src/ui.rs

WidgetGalleryDefault ==
    [scalar |-> DefaultScalar, animate_progress_bar |-> FALSE, open |-> TRUE]

Clamp(v, lo, hi) == IF v < lo THEN lo ELSE IF v > hi THEN hi ELSE v

\* Mutant: the slider writes the pointer's value without clamping it.
SliderUiUnclamped(scalar, in) ==
    IF in.kind = "slider" THEN in.value ELSE scalar

\* egui::Slider::new(scalar, 0.0..=360.0): a slider move writes the pointer's
\* value clamped to the slider's range.
SliderUi(scalar, in) ==
    IF in.kind = "slider" THEN Clamp(in.value, SliderMin, SliderMax) ELSE scalar

\* egui::DragValue::new(scalar).speed(1.0): no range is given, a drag adds the
\* dragged distance.  It runs after the slider, so whatever the slider did
\* to the scalar in this frame, the drag's result is what the progress bar
\* sees.
DragValueUi(scalar, in) ==
    IF in.kind = "drag" THEN scalar + in.value ELSE scalar

\* let progress = *scalar / 360.0;
Progress(scalar) == [num |-> scalar, den |-> ProgressDivisor]

\* Mutant: the flag, once set, is never cleared.
HoverResultSticky(animate, hovered) == animate \/ hovered

\* *animate_progress_bar = ui.add(progress_bar).on_hover_text(..).hovered();
HoverResult(animate, hovered) == hovered

\* WidgetGallery::ui: the slider, then the drag value, then the progress bar
\* built from the scalar and from the flag as it was before this frame.
WidgetGalleryUi(g, in) ==
    LET s1 == SliderUi(g.scalar, in)
        s2 == DragValueUi(s1, in)
    IN  [gallery  |-> [g EXCEPT !.scalar = s2,
                                !.animate_progress_bar =
                                    HoverResult(g.animate_progress_bar, in.hovered)],
         progress |-> Progress(s2),
         animated |-> g.animate_progress_bar]

\* WidgetGallery::show: the egui window runs the closure while it is open; a
\* click on its close button clears `open`, which is stored back.
WidgetGalleryShow(g, in) ==
    IF g.open
    THEN LET r == WidgetGalleryUi(g, in)
         IN  [gallery  |-> [r.gallery EXCEPT !.open = (in.kind # "close")],
              shown    |-> TRUE,
              progress |-> r.progress,
              animated |-> r.animated]
    ELSE [gallery |-> g, shown |-> FALSE,
          progress |-> NoFrame.progress, animated |-> FALSE]

\* What one frame's input can be: the pointer rests (over the progress bar or
\* not), moves the slider, drags the drag value, or clicks the gallery
\* window's close button.  While another widget is dragged or clicked the
\* progress bar is not hovered.
Half == SliderMax \div 2
SliderPositions == {SliderMin - Half, SliderMin, Half, SliderMax, SliderMax + Half}
DragDeltas == {-Half, Half}
GalleryInputs ==
    [kind : {"idle"}, value : {0}, hovered : BOOLEAN]
        \cup [kind : {"slider"}, value : SliderPositions, hovered : {FALSE}]
        \cup [kind : {"drag"}, value : DragDeltas, hovered : {FALSE}]
        \cup [kind : {"close"}, value : {0}, hovered : {FALSE}]
\* The scalars the model follows (drags are unbounded in the program).
ScalarRange == (SliderMin - Half)..(SliderMax + Half)

----------------------------------------------------------------------------
\* src/main.rs

\* egui_winit::State::new(egui::Context::default(), ..): a fresh context with
\* no textures.
UiStateNew(id) == [ctx |-> id, textures |-> {}, next_id |-> 1]

\* What ui_ctx.run can return for a context: textures_delta.set holds the
\* newly allocated ids (allocated in increasing order), textures_delta.free
\* holds live ids whose handles were dropped.
UiOutputs(st) ==
    {o \in [set : SUBSET TextureIds, free : SUBSET TextureIds,
            next_id : st.next_id..(MaxTextures + 1)] :
        /\ o.set = st.next_id..(o.next_id - 1)
        /\ o.free \subseteq st.textures}

\* A pass that neither allocates nor drops a texture.
QuietOutputs(st) == {o \in UiOutputs(st) : o.set = {} /\ o.free = {}}

UiStateAfterRun(st, out) ==
    [st EXCEPT !.textures = (st.textures \cup out.set) \ out.free,
               !.next_id = out.next_id]

\* GpuResources::new: the surface configuration takes the window's inner size.
GpuResourcesNew(size) == [width |-> size.width, height |-> size.height]

\* Mutant: the resize forgets the height.
GpuResourcesResizeWidthOnly(config, size) ==
    [config EXCEPT !.width = size.width]

\* GpuResources::resize
GpuResourcesResize(config, size) ==
    [config EXCEPT !.width = size.width, !.height = size.height]

\* Surface::configure panics on a zero-area configuration.
ConfigureOutcome(config) == IF ZeroArea(config) THEN "panicked" ELSE "running"

RECURSIVE Ascending(_)
Ascending(S) ==
    IF S = {} THEN <<>>
    ELSE LET m == CHOOSE x \in S : \A y \in S : x <= y
         IN  <<m>> \o Ascending(S \ {m})

RECURSIVE UpdateTextureOps(_)
UpdateTextureOps(ids) ==
    IF ids = <<>> THEN <<>>
    ELSE <<Op("update_texture", Head(ids))>> \o UpdateTextureOps(Tail(ids))

\* Mutant: the texture delta is applied after the draw.
DrawUiOpsUploadLast(out) ==
    <<Op("take_egui_input", 0), Op("run", 0), Op("tessellate", 0),
      Op("update_buffers", 0), Op("render", 0)>>
        \o UpdateTextureOps(Ascending(out.set))

\* AppResources::draw_ui: the calls it makes, in order.
DrawUiOps(out) ==
    <<Op("take_egui_input", 0), Op("run", 0), Op("tessellate", 0)>>
        \o UpdateTextureOps(Ascending(out.set))
        \o <<Op("update_buffers", 0), Op("render", 0)>>

\* The textures resident in the renderer after draw_ui applied the delta:
\* update_texture for every entry of textures_delta.set.
PainterAfterDraw(painter, out) == painter \cup out.set

\* AppResources::do_render: `?` returns the surface error before anything else
\* is done (the UI output `out` is then never produced).
DoRenderOps(acq, out) ==
    IF acq = "Ok"
    THEN <<Op("get_current_texture", 0), Op("create_view", 0),
           Op("create_command_encoder", 0), Op("begin_render_pass", 0)>>
             \o DrawUiOps(out)
             \o <<Op("submit", 0), Op("present", 0)>>
    ELSE <<Op("get_current_texture", 0)>>

\* Mutant: the surface error is dropped and the loop goes on.
UnwrapIgnoresError(acq) == "running"

\* do_render().unwrap(): an Err panics.
UnwrapOutcome(acq) == IF acq = "Ok" THEN "running" ELSE "panicked"

\* The responses egui_winit::State::on_window_event can give to an event.
EguiResponses(event) ==
    IF event \in {"CloseRequested", "RedrawRequested", "Resized"}
    THEN [repaint : BOOLEAN, consumed : {FALSE}]
    ELSE [repaint : BOOLEAN, consumed : BOOLEAN]

\* AppResources::on_window_event
OnWindowEvent(window_id, response) ==
    IF window = window_id
    THEN [ops |-> IF response.repaint THEN <<Op("request_redraw", 0)>> ELSE <<>>,
          repaint |-> response.repaint, consumed |-> response.consumed]
    ELSE [ops |-> <<>>, repaint |-> FALSE, consumed |-> FALSE]

\* Mutant: the match has no CloseRequested arm.
DispatchWithoutClose(event, consumed) ==
    IF consumed THEN "return"
    ELSE IF event \in {"RedrawRequested", "Resized"} THEN event
    ELSE "ignored"

\* App::window_event: the early return and the match.
Dispatch(event, consumed) ==
    IF consumed THEN "return"
    ELSE IF event \in {"CloseRequested", "RedrawRequested", "Resized"} THEN event
    ELSE "ignored"

----------------------------------------------------------------------------
Init ==
    /\ app_resources = "None"
    /\ window = 0
    /\ surface_config = [width |-> 0, height |-> 0]
    /\ ui_painter = {}
    /\ ui_state = UiStateNew(0)
    /\ ui_gallery = WidgetGalleryDefault
    /\ windowSize = [width |-> 0, height |-> 0]
    /\ redrawRequested = FALSE
    /\ loop = "running"
    /\ windowsCreated = 0
    /\ rendered = FALSE
    /\ lastEvent = "none"
    /\ trace = <<>>
    /\ frame = NoFrame

\* App::resumed: AppResources::new creates a window, the GPU resources, the
\* renderer, the egui state and the default gallery, and replaces whatever
\* app_resources held.
Resumed ==
    /\ loop = "running"
    /\ windowsCreated < MaxResumes
    /\ app_resources' = "Some"
    /\ window' = windowsCreated + 1
    /\ windowsCreated' = windowsCreated + 1
    /\ windowSize' = DefaultSize
    /\ surface_config' = GpuResourcesNew(DefaultSize)
    /\ ui_painter' = {}
    /\ ui_state' = UiStateNew(windowsCreated + 1)
    /\ ui_gallery' = WidgetGalleryDefault
    /\ redrawRequested' = FALSE
    /\ trace' = <<Op("create_window", windowsCreated + 1), Op("configure", 0)>>
    /\ lastEvent' = "Resumed"
    /\ frame' = NoFrame
    /\ UNCHANGED <<loop, rendered>>

\* window_event(CloseRequested)
CloseRequested ==
    /\ loop = "running"
    /\ app_resources = "Some"
    /\ \E response \in EguiResponses("CloseRequested") :
        LET r == OnWindowEvent(window, response)
            arm == Dispatch("CloseRequested", r.consumed)
        IN  /\ redrawRequested' = (redrawRequested \/ r.repaint)
            /\ IF arm = "CloseRequested"
               THEN /\ trace' = r.ops \o <<Op("exit", 0)>>
                    /\ loop' = "exiting"
               ELSE /\ trace' = r.ops
                    /\ loop' = loop
    /\ lastEvent' = "CloseRequested"
    /\ frame' = NoFrame
    /\ UNCHANGED <<app_resources, window, surface_config, ui_painter, ui_state,
                   ui_gallery, windowSize, windowsCreated, rendered>>

\* window_event(Resized(physical_size)): the window has the new size.
Resized ==
    /\ loop = "running"
    /\ app_resources = "Some"
    /\ \E size \in Sizes, response \in EguiResponses("Resized") :
        LET r == OnWindowEvent(window, response)
            arm == Dispatch("Resized", r.consumed)
            config == GpuResourcesResize(surface_config, size)
        IN  /\ windowSize' = size
            /\ redrawRequested' = (redrawRequested \/ r.repaint)
            /\ IF arm = "Resized"
               THEN /\ surface_config' = config
                    /\ trace' = r.ops \o <<Op("configure", 0)>>
                    /\ loop' = ConfigureOutcome(config)
               ELSE /\ surface_config' = surface_config
                    /\ trace' = r.ops
                    /\ loop' = loop
    /\ lastEvent' = "Resized"
    /\ frame' = NoFrame
    /\ UNCHANGED <<app_resources, window, ui_painter, ui_state, ui_gallery,
                   windowsCreated, rendered>>

\* window_event(RedrawRequested): do_render().unwrap(), then request_redraw.
\* Inputs are the frame inputs and Outputs the UI outputs that are followed.
RedrawRequestedWith(Inputs, Outputs) ==
    /\ loop = "running"
    /\ app_resources = "Some"
    /\ \E response \in EguiResponses("RedrawRequested"), acq \in AcquireResults :
        LET r == OnWindowEvent(window, response)
            arm == Dispatch("RedrawRequested", r.consumed)
        IN  IF arm # "RedrawRequested"
            THEN /\ trace' = r.ops
                 /\ redrawRequested' = r.repaint
                 /\ frame' = NoFrame
                 /\ UNCHANGED <<ui_painter, ui_state, ui_gallery, loop, rendered>>
            ELSE IF acq # "Ok"
            THEN /\ trace' = r.ops \o DoRenderOps(acq, NoFrame)
                 /\ loop' = UnwrapOutcome(acq)
                 /\ redrawRequested' = r.repaint
                 /\ frame' = [NoFrame EXCEPT !.acquire = acq]
                 /\ UNCHANGED <<ui_painter, ui_state, ui_gallery, rendered>>
            ELSE \E in \in Inputs, out \in Outputs :
                 LET g == WidgetGalleryShow(ui_gallery, in)
                 IN  /\ g.gallery.scalar \in ScalarRange
                     /\ trace' = r.ops \o DoRenderOps(acq, out)
                                    \o <<Op("request_redraw", 0)>>
                     /\ loop' = UnwrapOutcome(acq)
                     /\ redrawRequested' = TRUE
                     /\ rendered' = TRUE
                     /\ ui_gallery' = g.gallery
                     /\ ui_state' = UiStateAfterRun(ui_state, out)
                     /\ ui_painter' = PainterAfterDraw(ui_painter, out)
                     /\ frame' = [acquire |-> acq, drawn |-> TRUE,
                                  width |-> surface_config.width,
                                  height |-> surface_config.height,
                                  shown |-> g.shown,
                                  hovered |-> g.shown /\ in.hovered,
                                  animated |-> g.animated,
                                  interaction |-> IF g.shown THEN in.kind ELSE "none",
                                  progress |-> g.progress,
                                  set |-> out.set, free |-> out.free]
    /\ lastEvent' = "RedrawRequested"
    /\ UNCHANGED <<app_resources, window, surface_config, windowSize,
                   windowsCreated>>

\* A frame in which the pointer rests away from the gallery's widgets.
RestingInputs == {in \in GalleryInputs : in.kind = "idle" /\ ~in.hovered}

\* Redraws whose UI pass allocates and drops textures.
RedrawRequested == RedrawRequestedWith(RestingInputs, UiOutputs(ui_state))

\* Redraws whose frame input exercises the gallery's widgets.
GalleryRedrawRequested ==
    RedrawRequestedWith(GalleryInputs, QuietOutputs(ui_state))

\* window_event with any other event (pointer, keyboard, focus, ...): egui may
\* consume it and may ask for a repaint; the match does nothing.
OtherEvent ==
    /\ loop = "running"
    /\ app_resources = "Some"
    /\ \E response \in EguiResponses("Other") :
        LET r == OnWindowEvent(window, response)
            arm == Dispatch("Other", r.consumed)
        IN  /\ trace' = r.ops
            /\ redrawRequested' = (redrawRequested \/ r.repaint)
    /\ lastEvent' = "Other"
    /\ frame' = NoFrame
    /\ UNCHANGED <<app_resources, window, surface_config, ui_painter, ui_state,
                   ui_gallery, windowSize, loop, windowsCreated, rendered>>

\* The application with every window event; redraws follow the texture
\* traffic of the UI pass.
Next ==
    \/ Resumed
    \/ CloseRequested
    \/ Resized
    \/ RedrawRequested
    \/ OtherEvent

Spec == Init /\ [][Next]_vars

\* The application with the gallery's widgets exercised frame by frame.
NextGallery ==
    \/ Resumed
    \/ CloseRequested
    \/ GalleryRedrawRequested
    \/ OtherEvent

SpecGallery == Init /\ [][NextGallery]_vars

----------------------------------------------------------------------------
\* Properties.

LastOp == IF trace = <<>> THEN "none" ELSE trace[Len(trace)].op

\* C1: once running, a CloseRequested event makes window_event call exit, and
\* after it no frame is acquired and no further event is handled.
C1_CloseRequestedExits ==
    /\ lastEvent = "CloseRequested" =>
           loop = "exiting" /\ Did("exit") /\ ~Did("get_current_texture")
    /\ loop = "exiting" => lastEvent = "CloseRequested" /\ ~ENABLED Next

\* C1 witness: the loop exited after frames were rendered, with a redraw
\* request still pending.
C1_Witness == loop = "exiting" /\ rendered /\ redrawRequested

\* C2: at every frame acquisition the surface configuration, and so the frame,
\* has the window's current physical size (the initial inner size, or that of
\* the most recent Resized event).
C2_FrameMatchesWindowSize ==
    /\ Did("get_current_texture") => surface_config = windowSize
    /\ frame.drawn =>
           frame.width = windowSize.width /\ frame.height = windowSize.height

\* C2 witness: a frame drawn after a resize to a size other than the initial.
C2_Witness ==
    /\ frame.drawn
    /\ <<frame.width, frame.height>> # <<DefaultSize.width, DefaultSize.height>>

\* C3 (as claimed): a Resized event with a zero width or height does not
\* reconfigure the surface and leaves the stored configuration unchanged.
C3_ZeroResizeIsNoOp ==
    [][(lastEvent' = "Resized" /\ ZeroArea(windowSize')) =>
           (surface_config' = surface_config /\ ~Called(trace', "configure"))]_vars

\* C4 (as claimed): the window and the UI state held by the application are
\* always those created by the first resumed.
C4_WindowCreatedOnce ==
    app_resources = "Some" =>
        window = 1 /\ ui_state.ctx = 1 /\ windowsCreated = 1

\* C5: a surface error at frame acquisition terminates the process: nothing
\* follows get_current_texture (no UI pass, submit, present or redraw
\* request), no later event is handled, and a redraw either completes or the
\* process has exited.
C5_AcquireFailureIsFatal ==
    /\ frame.acquire \in SurfaceErrors =>
           /\ loop = "panicked"
           /\ LastOp = "get_current_texture"
           /\ ~Did("run") /\ ~Did("submit") /\ ~Did("present")
           /\ ~frame.drawn
    /\ loop = "panicked" => ~ENABLED Next
    /\ lastEvent = "RedrawRequested" =>
           \/ loop = "panicked"
           \/ /\ frame.drawn
              /\ Did("get_current_texture") /\ Did("run")
              /\ Did("submit") /\ Did("present")

\* C5 witness: an acquisition timed out after earlier frames were rendered.
C5_Witness == frame.acquire = "Timeout" /\ loop = "panicked" /\ rendered

\* Every redraw that does not panic is one frame: one acquisition, one UI
\* pass, one submit, one present, in that order, then one redraw request.
OneFramePerRedraw ==
    (lastEvent = "RedrawRequested" /\ loop = "running") =>
        /\ Count("get_current_texture") = 1 /\ Count("run") = 1
        /\ Count("submit") = 1 /\ Count("present") = 1
        /\ FirstIndex("get_current_texture") < FirstIndex("run")
        /\ FirstIndex("run") < FirstIndex("submit")
        /\ FirstIndex("submit") + 1 = FirstIndex("present")
        /\ FirstIndex("present") + 1 = Len(trace)
        /\ LastOp = "request_redraw"
        /\ redrawRequested

\* C6 (as claimed): every redraw handled while running is exactly one frame
\* followed by one redraw request, and once a frame has been rendered a redraw
\* request is pending for as long as the loop runs.
C6_RedrawAlwaysPending ==
    /\ OneFramePerRedraw
    /\ (rendered /\ loop = "running") => redrawRequested

\* C7: in a frame every texture of the delta's set is uploaded before the
\* buffers are uploaded and before the draw, and every texture a draw batch
\* of the frame can reference is resident in the renderer.
C7_TexturesUploadedBeforeDraw ==
    frame.drawn =>
        /\ \A t \in frame.set :
               \E i \in 1..Len(trace) :
                   trace[i] = Op("update_texture", t)
                       /\ i < FirstIndex("update_buffers")
        /\ \A i \in 1..Len(trace) :
               trace[i].op = "update_texture" => i < FirstIndex("update_buffers")
        /\ 0 < FirstIndex("update_buffers")
        /\ FirstIndex("update_buffers") < FirstIndex("render")
        /\ (ui_state.textures \cup frame.free) \subseteq ui_painter

\* C7 witness: a frame whose delta added more than one texture.
C7_Witness == frame.drawn /\ Cardinality(frame.set) > 1

\* C8 (as claimed): the textures resident in the renderer are those added by
\* some frame's delta and not removed by a later one.
C8_RemovedTexturesFreed ==
    /\ ui_painter = ui_state.textures
    /\ frame.drawn => frame.free \cap ui_painter = {}

\* C9 (as claimed): the progress bar's fraction is scalar / 360 and lies in
\* [0, 1], scalar staying within [0, 360].
C9_ScalarStaysInSliderRange ==
    /\ ui_gallery.scalar \in SliderMin..SliderMax
    /\ frame.shown =>
           /\ frame.progress.num * 360 = ui_gallery.scalar * frame.progress.den
           /\ 0 <= frame.progress.num /\ frame.progress.num <= frame.progress.den

\* C9 (amended): the fraction given to the progress bar is scalar / 360, 0 for
\* scalar 0 and 1 for scalar 360; a slider move leaves scalar in [0, 360] and
\* the fraction in [0, 1].  The drag value is unbounded.
C9_ProgressIsScalarOver360 ==
    frame.shown =>
        /\ frame.progress.num * 360 = ui_gallery.scalar * frame.progress.den
        /\ ui_gallery.scalar = 0 => frame.progress.num = 0
        /\ ui_gallery.scalar = 360 => frame.progress.num = frame.progress.den
        /\ frame.interaction = "slider" =>
               /\ ui_gallery.scalar \in SliderMin..SliderMax
               /\ 0 <= frame.progress.num
               /\ frame.progress.num <= frame.progress.den

\* C9 witness: a drag took the scalar above the slider's range, and a slider
\* move beyond the rail's end was clamped.
C9_Witness ==
    /\ frame.shown
    /\ \/ frame.interaction = "drag" /\ ui_gallery.scalar > SliderMax
       \/ frame.interaction = "slider" /\ ui_gallery.scalar = SliderMax

\* C10 (as claimed): after every frame the flag is true iff the pointer hovers
\* the progress bar, and the bar drawn in a frame is animated iff the pointer
\* hovers it in that frame.
C10_AnimatedWhileHovered ==
    frame.drawn =>
        /\ ui_gallery.animate_progress_bar <=> frame.hovered
        /\ frame.shown => (frame.animated <=> frame.hovered)

\* C10 (amended): a frame that shows the gallery sets the flag to whether the
\* pointer hovers the progress bar in that frame and draws the bar animated
\* iff the flag was set before the frame; a frame that does not show the
\* gallery leaves the flag alone.
C10_FlagFollowsHover ==
    [][frame'.drawn =>
           IF frame'.shown
           THEN /\ ui_gallery'.animate_progress_bar = frame'.hovered
                /\ frame'.animated = ui_gallery.animate_progress_bar
           ELSE ui_gallery'.animate_progress_bar
                    = ui_gallery.animate_progress_bar]_vars

\* C10 witness: the first frame in which the pointer hovers the bar: the flag
\* is set, the bar was drawn unanimated.
C10_Witness ==
    /\ frame.shown /\ frame.hovered
    /\ ~frame.animated /\ ui_gallery.animate_progress_bar

====
